---- MODULE Spec2Model ----
(***************************************************************************)
(* Campus Flow registry: the live snapshot (State), the durable copy in    *)
(* localStorage, the form handlers of main.js, the validators, the storage *)
(* gateway and the search engine.                                          *)
(*                                                                         *)
(* Conventions.  A JavaScript string that the code inspects character by   *)
(* character (title, date, cancelReason, duration text, search pattern) is *)
(* a sequence of one-character strings.  A JavaScript number is a tagged   *)
(* record: Num(v) holds v hundredths (Num(150) is 1.5), NaN is NaN, Null   *)
(* is the JSON null.  A timestamp is the value of the clock `now`; Undef   *)
(* stands for a property that is absent from an object.                    *)
(***************************************************************************)
EXTENDS Integers, Sequences, FiniteSets, TLC

\* ------------------------------------------------------------------ bounds
MaxTasks == 2   \* records the live collection may hold in the explored runs
MaxClock == 2   \* Date.now() ranges over 1..MaxClock in this session
MaxRnd == 1     \* Math.floor(Math.random() * 1000) ranges over 0..MaxRnd-1
MaxFailures == 1 \* writes to localStorage that fail in one run
MaxOps == 3     \* mutations (create, update, delete, setCapacity) in one run

\* ------------------------------------------------------ JavaScript values
Num(v) == [t |-> "num", v |-> v]
NaN == [t |-> "nan", v |-> 0]
Null == [t |-> "null", v |-> 0]
Undef == -1

\* truthiness of a number value, as used by `x || dflt`
Truthy(x) == x.t = "num" /\ x.v # 0

WS == {" "}
Digits == {"0", "1", "2", "3", "4", "5", "6", "7", "8", "9"}
Letters == {"a", "b", "c", "d", "e", "A", "N"}
WordChars == Letters \cup Digits \cup {"_"}

\* case folding of the `i` flag over the model's alphabet
Lower(c) == CASE c = "A" -> "a" [] c = "N" -> "n" [] OTHER -> c

DigitVal(c) ==
    CASE c = "0" -> 0 [] c = "1" -> 1 [] c = "2" -> 2 [] c = "3" -> 3
      [] c = "4" -> 4 [] c = "5" -> 5 [] c = "6" -> 6 [] c = "7" -> 7
      [] c = "8" -> 8 [] c = "9" -> 9

DigitChar(d) ==
    CASE d = 0 -> "0" [] d = 1 -> "1" [] d = 2 -> "2" [] d = 3 -> "3"
      [] d = 4 -> "4" [] d = 5 -> "5" [] d = 6 -> "6" [] d = 7 -> "7"
      [] d = 8 -> "8" [] d = 9 -> "9"

\* String.prototype.trim
RECURSIVE TrimLeft(_)
TrimLeft(s) == IF s # <<>> /\ Head(s) \in WS THEN TrimLeft(Tail(s)) ELSE s

RECURSIVE TrimRight(_)
TrimRight(s) ==
    IF s # <<>> /\ s[Len(s)] \in WS
    THEN TrimRight(SubSeq(s, 1, Len(s) - 1))
    ELSE s

Trim(s) == TrimRight(TrimLeft(s))

\* length of the leading run of decimal digits of s
RECURSIVE DigitsPrefixLen(_)
DigitsPrefixLen(s) ==
    IF s # <<>> /\ Head(s) \in Digits THEN 1 + DigitsPrefixLen(Tail(s)) ELSE 0

\* value of a sequence of decimal digits
RECURSIVE DigitsValue(_)
DigitsValue(s) ==
    IF s = <<>> THEN 0
    ELSE 10 * DigitsValue(SubSeq(s, 1, Len(s) - 1)) + DigitVal(s[Len(s)])

\* parseFloat: skips leading blanks, reads an optional sign, digits and an
\* optional fraction, ignores whatever follows, and gives NaN when no digit
\* was read.  Fractions are read to two places (the model's resolution).
ParseFloat(s) ==
    LET t == TrimLeft(s)
        neg == t # <<>> /\ Head(t) = "-"
        u == IF t # <<>> /\ Head(t) \in {"-", "+"} THEN Tail(t) ELSE t
        n == DigitsPrefixLen(u)
        rest == SubSeq(u, n + 1, Len(u))
        fr == IF rest # <<>> /\ Head(rest) = "." THEN Tail(rest) ELSE <<>>
        m == DigitsPrefixLen(fr)
        frac == IF m = 0 THEN 0
                ELSE IF m = 1 THEN 10 * DigitVal(fr[1])
                ELSE 10 * DigitVal(fr[1]) + DigitVal(fr[2])
        mag == 100 * DigitsValue(SubSeq(u, 1, n)) + frac
    IN  IF n = 0 /\ m = 0 THEN NaN
        ELSE Num(IF neg THEN 0 - mag ELSE mag)

\* decimal digits of a natural number
RECURSIVE NatToString(_)
NatToString(n) ==
    IF n < 10 THEN <<DigitChar(n)>>
    ELSE NatToString(n \div 10) \o <<DigitChar(n % 10)>>

\* String(number) for NaN and for numbers with at most two decimals
NumToString(x) ==
    IF x.t = "nan" THEN <<"N", "a", "N">>
    ELSE IF x.t = "null" THEN <<"n", "u", "l", "l">>
    ELSE LET mag == IF x.v < 0 THEN 0 - x.v ELSE x.v
             h == mag % 100
             fracPart == IF h = 0 THEN <<>>
                         ELSE IF h % 10 = 0 THEN <<".", DigitChar(h \div 10)>>
                         ELSE <<".", DigitChar(h \div 10), DigitChar(h % 10)>>
         IN  (IF x.v < 0 THEN <<"-">> ELSE <<>>)
                \o NatToString(mag \div 100) \o fracPart

\* --------------------------------------------------------------- data.js
Categories == <<"academic", "professional", "social", "self-care">>

InitialCapacity == Num(800)

\* `rec_${Date.now()}_${Math.floor(Math.random() * 1000)}`
GenerateId(clock, rnd) == [src |-> "rec", t |-> clock, r |-> rnd]

\* the empty string held by the hidden task-id field
NoId == [src |-> "", t |-> 0, r |-> 0]

\* -------------------------------------------------------- validators.js
\* the title pattern without its trailing part: /^\S.*$/
TitleNoLeading(s) == Len(s) >= 1 /\ s[1] \notin WS

\* /^\S(?:.*\S)?$/ on a one-line text (the title control holds one line)
TitlePattern(s) == Len(s) >= 1 /\ s[1] \notin WS /\ s[Len(s)] \notin WS

\* /^(0|[1-9]\d*)(\.(25|5|75|0|00))?$/
IntegerPart(s) ==
    \/ s = <<"0">>
    \/ /\ Len(s) >= 1
       /\ s[1] \in Digits \ {"0"}
       /\ \A i \in 2..Len(s) : s[i] \in Digits

FractionPart(s) ==
    s \in {<<"2", "5">>, <<"5">>, <<"7", "5">>, <<"0">>, <<"0", "0">>}

\* the duration pattern with any digits as the fraction:
\* /^(0|[1-9]\d*)(\.\d+)?$/
DurationAnyFraction(s) ==
    \/ IntegerPart(s)
    \/ \E k \in 1..Len(s) :
          /\ s[k] = "."
          /\ IntegerPart(SubSeq(s, 1, k - 1))
          /\ k < Len(s)
          /\ \A i \in (k + 1)..Len(s) : s[i] \in Digits

DurationPattern(s) ==
    \/ IntegerPart(s)
    \/ \E k \in 1..Len(s) :
          /\ s[k] = "."
          /\ IntegerPart(SubSeq(s, 1, k - 1))
          /\ FractionPart(SubSeq(s, k + 1, Len(s)))

\* /^\d{4}-(0[1-9]|1[0-2])-(0[1-9]|[12]\d|3[01])$/
DatePattern(s) ==
    /\ Len(s) = 10
    /\ \A i \in {1, 2, 3, 4} : s[i] \in Digits
    /\ s[5] = "-"
    /\ \/ s[6] = "0" /\ s[7] \in Digits \ {"0"}
       \/ s[6] = "1" /\ s[7] \in {"0", "1", "2"}
    /\ s[8] = "-"
    /\ \/ s[9] = "0" /\ s[10] \in Digits \ {"0"}
       \/ s[9] \in {"1", "2"} /\ s[10] \in Digits
       \/ s[9] = "3" /\ s[10] \in {"0", "1"}

\* \b at the gap before position i of s (1 <= i <= Len(s) + 1)
WordBoundary(s, i) ==
    LET before == i > 1 /\ s[i - 1] \in WordChars
        after == i <= Len(s) /\ s[i] \in WordChars
    IN  before # after

\* /\b(\w+)\s+\1\b/i : a word at i of length n, m blanks, the same word again
DuplicateWords(s) ==
    \E i \in 1..Len(s) : \E n \in 1..Len(s) : \E m \in 1..Len(s) :
        /\ i + 2 * n + m - 1 <= Len(s)
        /\ WordBoundary(s, i)
        /\ \A k \in 0..(n - 1) : s[i + k] \in WordChars
        /\ \A k \in 0..(m - 1) : s[i + n + k] \in WS
        /\ \A k \in 0..(n - 1) : Lower(s[i + n + m + k]) = Lower(s[i + k])
        /\ WordBoundary(s, i + 2 * n + m)

\* the order in which validateTask inserts its keys
ErrorKeys == <<"title", "duration", "date", "cancelReason">>

\* validateTask: the error mapping; a key mapped to "" is a key that is absent
validateTask(data) ==
    LET activityTitle == data.title
        titleErr ==
            IF activityTitle = <<>> \/ Trim(activityTitle) = <<>>
            THEN "Activity title is required."
            ELSE IF ~TitlePattern(activityTitle)
            THEN "Title cannot have leading or trailing spaces."
            ELSE IF DuplicateWords(activityTitle)
            THEN "Duplicate words detected. Please refine the title."
            ELSE ""
        durationStr == NumToString(data.duration)
        durationErr ==
            IF ~DurationPattern(durationStr)
            THEN "Duration must be in 0.25 (15 min) increments."
            ELSE ""
        dateErr ==
            IF ~DatePattern(data.date)
            THEN "Please provide a valid date (YYYY-MM-DD)."
            ELSE ""
        cancelErr ==
            IF data.status = "canceled"
               /\ (data.cancelReason = <<>> \/ Len(Trim(data.cancelReason)) < 5)
            THEN "A justification is required for registry deviations."
            ELSE ""
    IN  [title |-> titleErr, duration |-> durationErr, date |-> dateErr,
         cancelReason |-> cancelErr]

\* Object.keys(errors).length > 0
HasErrors(errors) == \E i \in 1..Len(ErrorKeys) : errors[ErrorKeys[i]] # ""

\* Object.values(errors)[0]
FirstError(errors) ==
    LET i == CHOOSE j \in 1..Len(ErrorKeys) :
                 /\ errors[ErrorKeys[j]] # ""
                 /\ \A k \in 1..(j - 1) : errors[ErrorKeys[k]] = ""
    IN  errors[ErrorKeys[i]]

\* ----------------------------------------------------------- storage.js
\* JSON.stringify of a number: NaN is written as null
JsonNum(x) == IF x.t = "nan" THEN Null ELSE x

JsonTask(task) == [task EXCEPT !.duration = JsonNum(@)]

\* JSON.stringify(State) followed by JSON.parse: tasks and settings.capacity
\* (the non-index property tasks[-1] is not serialized)
Serialize(ts, cap) ==
    [kind |-> "json",
     tasks |-> [i \in 1..Len(ts) |-> JsonTask(ts[i])],
     capacity |-> JsonNum(cap)]

Absent == [kind |-> "absent", tasks |-> <<>>, capacity |-> Null]
Corrupt == [kind |-> "corrupt", tasks |-> <<>>, capacity |-> Null]

\* Storage.save without its try/catch: a failed write propagates
SaveUncaught(store, ts, cap, writeOk) ==
    [store |-> IF writeOk THEN Serialize(ts, cap) ELSE store,
     threw |-> ~writeOk]

\* Storage.save: setItem fails (quota, disabled storage) when ~writeOk; the
\* catch logs and returns
StorageSave(store, ts, cap, writeOk) ==
    [store |-> IF writeOk THEN Serialize(ts, cap) ELSE store,
     threw |-> FALSE]

\* Storage.load without its try/catch: JSON.parse of a corrupt copy propagates
LoadUncaught(store) ==
    [isNull |-> store.kind = "absent", threw |-> store.kind = "corrupt",
     tasks |-> store.tasks, capacity |-> store.capacity]

\* Storage.load: null when the item is absent or does not parse
StorageLoad(store) ==
    [isNull |-> store.kind # "json", threw |-> FALSE,
     tasks |-> store.tasks, capacity |-> store.capacity]

\* JSON.parse on the import texts the model submits
ImportTexts ==
    {"", "null", "42", "[{\"tasks\":[]}]", "{}", "{\"tasks\":{}}",
     "{\"tasks\":[{\"title\":\" \"}]}"}

Parsed(kind, falsy, tasksKind) ==
    [ok |-> TRUE, kind |-> kind, falsy |-> falsy, tasksKind |-> tasksKind]

SyntaxError == [ok |-> FALSE, kind |-> "", falsy |-> FALSE, tasksKind |-> ""]

JsonParse(text) ==
    CASE text = "" -> SyntaxError
      [] text = "{" -> SyntaxError
      [] text = "null" -> Parsed("null", TRUE, "")
      [] text = "0" -> Parsed("number", TRUE, "undefined")
      [] text = "42" -> Parsed("number", FALSE, "undefined")
      [] text = "\"tasks\"" -> Parsed("string", FALSE, "undefined")
      [] text = "true" -> Parsed("boolean", FALSE, "undefined")
      [] text = "[]" -> Parsed("array", FALSE, "undefined")
      [] text = "[{\"tasks\":[]}]" -> Parsed("array", FALSE, "undefined")
      [] text = "{}" -> Parsed("object", FALSE, "undefined")
      [] text = "{\"tasks\":null}" -> Parsed("object", FALSE, "null")
      [] text = "{\"tasks\":\"a\"}" -> Parsed("object", FALSE, "string")
      [] text = "{\"tasks\":{}}" -> Parsed("object", FALSE, "object")
      [] text = "{\"tasks\":[]}" -> Parsed("object", FALSE, "array")
      [] text = "{\"tasks\":[{}]}" -> Parsed("object", FALSE, "array")
      [] text = "{\"tasks\":[{\"title\":\" \"}]}" -> Parsed("object", FALSE, "array")

\* typeof
TypeOf(parsed) ==
    IF parsed.kind \in {"null", "array", "object"} THEN "object" ELSE parsed.kind

NoRet == [success |-> FALSE, hasData |-> FALSE, data |-> "", error |-> "",
          threw |-> FALSE]

\* importJSON with the Array.isArray test left out
ImportNoArrayCheck(jsonString) ==
    LET parsed == JsonParse(jsonString)
    IN  IF ~parsed.ok
        THEN [NoRet EXCEPT !.error = "SyntaxError"]
        ELSE IF parsed.falsy \/ TypeOf(parsed) # "object"
        THEN [NoRet EXCEPT !.error = "Invalid registry format"]
        ELSE [NoRet EXCEPT !.success = TRUE, !.hasData = TRUE,
                           !.data = jsonString]

\* Storage.importJSON: `data` is the decoded value, named here by its text
importJSON(jsonString) ==
    LET parsed == JsonParse(jsonString)
    IN  IF ~parsed.ok
        THEN [NoRet EXCEPT !.error = "SyntaxError"]
        ELSE IF parsed.falsy \/ TypeOf(parsed) # "object"
                \/ parsed.tasksKind # "array"
        THEN [NoRet EXCEPT !.error = "Invalid registry format"]
        ELSE [NoRet EXCEPT !.success = TRUE, !.hasData = TRUE,
                           !.data = jsonString]

\* ------------------------------------------------------------ inputs
Str_a == <<"a">>
Str_pad == <<" ", "a">>
Str_dup == <<"a", " ", "A">>
Str_date == <<"2", "0", "2", "4", "-", "0", "3", "-", "0", "1">>
Str_baddate == <<"2", "0", "2", "4", "-", "1", "3", "-", "0", "1">>
Str_reason == <<"a", "b", "c", "d", "e">>
Str_short == <<" ", "a", "b", "c", "d", " ">>

\* what the user may have typed into the form when it is submitted
FormInput(title, date, duration, status, cancelReason) ==
    [title |-> title, date |-> date, category |-> "academic", time |-> "",
     duration |-> duration, status |-> status, urgent |-> FALSE,
     cancelReason |-> cancelReason, notes |-> <<>>]

FormInputs ==
    {FormInput(Str_a, Str_date, <<"1", ".", "5">>, "planned", <<>>),
     FormInput(Str_a, Str_date, <<"1", ".", "5", "0">>, "canceled", Str_reason),
     FormInput(Str_a, Str_date, <<"1", ".", "5">>, "canceled", <<>>),
     FormInput(Str_dup, Str_date, <<"1", ".", "5">>, "planned", <<>>),
     FormInput(Str_pad, Str_baddate, <<"0", ".", "1">>, "canceled", Str_short)}

\* a record written by an earlier session
StoredTask ==
    [id |-> GenerateId(0, 0), title |-> Str_a, date |-> Str_date,
     category |-> "social", time |-> "09:00", duration |-> Num(100),
     status |-> "planned", urgent |-> FALSE, cancelReason |-> <<>>,
     notes |-> <<>>, updatedAt |-> 0, createdAt |-> 0]

\* a record of seed.json: it has an id of its own and no timestamps
SeedTask ==
    [id |-> [src |-> "seed", t |-> 0, r |-> 1], title |-> Str_a,
     date |-> Str_date, category |-> "academic", time |-> "10:00",
     duration |-> Num(200), status |-> "planned", urgent |-> FALSE,
     cancelReason |-> <<>>, notes |-> <<>>, updatedAt |-> Undef,
     createdAt |-> Undef]

\* a record of seed.json with status canceled and no cancelReason
SeedCanceled ==
    [SeedTask EXCEPT !.id = [src |-> "seed", t |-> 0, r |-> 2],
                     !.status = "canceled"]

\* seed.json as fetched: {tasks, dailyCapacity}, either of which may be
\* missing; loadSeedData takes the records as they come
Seeds ==
    {[hasTasks |-> TRUE, tasks |-> <<SeedTask>>, dailyCapacity |-> Num(600)],
     [hasTasks |-> FALSE, tasks |-> <<>>, dailyCapacity |-> Null],
     [hasTasks |-> TRUE, tasks |-> <<SeedTask, SeedCanceled>>,
      dailyCapacity |-> Num(600)]}

\* what localStorage may hold when the page is loaded
InitialStores ==
    {Absent, Corrupt, Serialize(<<>>, InitialCapacity),
     Serialize(<<StoredTask>>, Num(600))}

\* an id that no record carries
StaleId == [src |-> "stale", t |-> 0, r |-> 0]

\* text typed into the capacity control
CapacityInputs == {<<"6">>, <<>>}

\* ------------------------------------------- search engine (main.js)
MaxPatternLen == 2   \* characters in a search pattern

PatternChars == {"a", " ", "[", "]"}

\* a compiled RegExp: one set of characters per pattern item, the i flag, the
\* lastIndex property; isNull marks the null that compileRegex returns
NullRegex ==
    [isNull |-> TRUE, threw |-> FALSE, items |-> <<>>, ci |-> FALSE,
     lastIndex |-> 0]

\* position of the first "]" of s, 0 when there is none
RECURSIVE ClassEnd(_)
ClassEnd(s) ==
    IF s = <<>> THEN 0
    ELSE IF Head(s) = "]" THEN 1
    ELSE LET k == ClassEnd(Tail(s)) IN IF k = 0 THEN 0 ELSE k + 1

\* the RegExp constructor over PatternChars: "[" opens a character class that
\* runs to the next "]" (SyntaxError when there is none), any other character
\* stands for itself
RECURSIVE RegExpItems(_)
RegExpItems(p) ==
    IF p = <<>> THEN [ok |-> TRUE, items |-> <<>>]
    ELSE IF Head(p) = "["
    THEN LET k == ClassEnd(Tail(p))
         IN  IF k = 0 THEN [ok |-> FALSE, items |-> <<>>]
             ELSE LET rest == RegExpItems(SubSeq(p, k + 2, Len(p)))
                      class == {p[i] : i \in 2..k}
                  IN  [ok |-> rest.ok, items |-> <<class>> \o rest.items]
    ELSE LET rest == RegExpItems(Tail(p))
         IN  [ok |-> rest.ok, items |-> <<{Head(p)}>> \o rest.items]

\* compileRegex without its try/catch
CompileUncaught(pattern, caseInsensitive) ==
    IF pattern = <<>> \/ Trim(pattern) = <<>> THEN NullRegex
    ELSE LET re == RegExpItems(pattern)
         IN  IF ~re.ok THEN [NullRegex EXCEPT !.threw = TRUE]
             ELSE [isNull |-> FALSE, threw |-> FALSE, items |-> re.items,
                   ci |-> caseInsensitive, lastIndex |-> 0]

\* SearchEngine.compileRegex
compileRegex(pattern, caseInsensitive) ==
    IF pattern = <<>> \/ Trim(pattern) = <<>> THEN NullRegex
    ELSE LET re == RegExpItems(pattern)
         IN  IF ~re.ok THEN NullRegex
             ELSE [isNull |-> FALSE, threw |-> FALSE, items |-> re.items,
                   ci |-> caseInsensitive, lastIndex |-> 0]

\* the text of a category id
Chars(str) ==
    CASE str = "academic" -> <<"a", "c", "a", "d", "e", "m", "i", "c">>
      [] str = "social" -> <<"s", "o", "c", "i", "a", "l">>
      [] OTHER -> <<>>

\* [title, category, notes, cancelReason].join(" ")
Content(task) ==
    task.title \o <<" ">> \o Chars(task.category) \o <<" ">> \o task.notes
        \o <<" ">> \o task.cancelReason

\* whether the items of regex match content at offset i (0-based)
MatchesAt(regex, content, i) ==
    /\ i + Len(regex.items) <= Len(content)
    /\ \A k \in 1..Len(regex.items) :
          IF regex.ci
          THEN Lower(content[i + k]) \in {Lower(c) : c \in regex.items[k]}
          ELSE content[i + k] \in regex.items[k]

\* RegExp.prototype.test of a global regex: searches from lastIndex, leaves
\* lastIndex after the match, or at 0 when there is none
RegExpTest(regex, content) ==
    LET hits == {i \in regex.lastIndex..Len(content) :
                    MatchesAt(regex, content, i)}
    IN  IF hits = {} THEN [found |-> FALSE, lastIndex |-> 0]
        ELSE LET i == CHOOSE h \in hits : \A g \in hits : h <= g
             IN  [found |-> TRUE, lastIndex |-> i + Len(regex.items)]

\* the callback of tasks.filter without `regex.lastIndex = 0`: each test
\* searches from where the test before it stopped
RECURSIVE FilterNoReset(_, _)
FilterNoReset(ts, regex) ==
    IF ts = <<>> THEN [result |-> <<>>, lastIndex |-> regex.lastIndex]
    ELSE LET r == RegExpTest(regex, Content(Head(ts)))
             rest == FilterNoReset(Tail(ts), [regex EXCEPT !.lastIndex = r.lastIndex])
         IN  [result |-> (IF r.found THEN <<Head(ts)>> ELSE <<>>) \o rest.result,
              lastIndex |-> rest.lastIndex]

\* the callback of tasks.filter, applied from left to right; it sets
\* regex.lastIndex = 0 before each test
RECURSIVE FilterFrom(_, _)
FilterFrom(ts, regex) ==
    IF ts = <<>> THEN [result |-> <<>>, lastIndex |-> regex.lastIndex]
    ELSE LET r == RegExpTest([regex EXCEPT !.lastIndex = 0], Content(Head(ts)))
             rest == FilterFrom(Tail(ts), [regex EXCEPT !.lastIndex = r.lastIndex])
         IN  [result |-> (IF r.found THEN <<Head(ts)>> ELSE <<>>) \o rest.result,
              lastIndex |-> rest.lastIndex]

\* SearchEngine.filterTasks
filterTasks(ts, regex) ==
    IF regex.isNull THEN [result |-> ts, lastIndex |-> regex.lastIndex]
    ELSE FilterFrom(ts, regex)

\* ------------------------------------------------------------- main.js
VARIABLES
    pc,         \* "boot", "fetching" (seed fetch pending), "ready", "crashed"
    tasks,      \* State.tasks, indices 1..Len(tasks)
    stray,      \* whether the array State.tasks has the property "-1"
    capacity,   \* State.settings.capacity
    store,      \* the localStorage item campus_flow_registry
    now,        \* the clock
    form,       \* the modal: whether it is shown and, while it is, the hidden
                \* task-id field (nothing reads the field of a hidden modal,
                \* and openForm rewrites it before showing the modal again)
    failures,   \* writes to localStorage that have failed so far
    ops,        \* mutations carried out so far
    lastOp,     \* what the last handler did, as its caller can observe it
    initState,  \* how App.init ended: "none" until it has
    lib         \* the last call of a library function (import, search)

vars == <<pc, tasks, stray, capacity, store, now, form, failures, ops, lastOp,
          initState, lib>>

FormClosed == [open |-> FALSE, taskId |-> NoId]

\* op: the handler; invalid: whether validateTask reported an error; alert: the
\* message shown; saved: how the call of Storage.save ended ("none": no call);
\* raised: an exception left the handler; rendered: the handler reached its
\* render; id, idx: the target id and its index; loaded: what load returned
Op(op) ==
    [op |-> op, invalid |-> FALSE, alert |-> "", saved |-> "none",
     raised |-> FALSE, rendered |-> FALSE, id |-> NoId, idx |-> 0,
     loaded |-> ""]

Saved(writeOk) == IF writeOk THEN "ok" ELSE "fail"

\* a write may fail while the run has failures to spend
MayWrite(writeOk) == writeOk \/ failures < MaxFailures

Count(writeOk) == IF writeOk THEN failures ELSE failures + 1

\* Array.prototype.findIndex(t => t.id === id); 0 stands for JavaScript's -1
FindIndex(ts, id) ==
    IF \E i \in 1..Len(ts) : ts[i].id = id
    THEN CHOOSE i \in 1..Len(ts) :
             ts[i].id = id /\ \A j \in 1..(i - 1) : ts[j].id # id
    ELSE 0

\* the spread with the operands swapped in effect: createdAt is not kept
MergeDropCreated(old, data) == data

\* { ...old, ...data }: data carries every field but createdAt
MergeRecord(old, data) == [data EXCEPT !.createdAt = old.createdAt]

\* the create branch with unshift in place of push
CreateAtFront(ts, data, t) == <<[data EXCEPT !.createdAt = t]>> \o ts

\* data.createdAt = new Date().toISOString(); State.tasks.push(data)
CreateRecord(ts, data, t) == Append(ts, [data EXCEPT !.createdAt = t])

\* a removal of the first match only (splice at findIndex)
RemoveFirstOnly(ts, id) ==
    LET idx == FindIndex(ts, id)
    IN  IF idx = 0 THEN ts
        ELSE SubSeq(ts, 1, idx - 1) \o SubSeq(ts, idx + 1, Len(ts))

\* State.tasks.filter(t => t.id !== id)
RemoveById(ts, id) == SelectSeq(ts, LAMBDA t : t.id # id)

\* the guard of handleSave with the validation result ignored
RejectNothing(errors) == FALSE

\* Object.keys(errors).length > 0
Rejects(errors) == HasErrors(errors)

\* a percentage as the fraction n / d in lowest terms
RECURSIVE Gcd(_, _)
Gcd(a, b) == IF b = 0 THEN a ELSE Gcd(b, a % b)

\* (x / total) * 100 for sums x, total of hundredths of an hour, total > 0
Percent(x, total) ==
    LET g == Gcd(100 * x, total)
    IN  [n |-> (100 * x) \div g, d |-> total \div g]

\* `sum || 1` on a sum of hundredths of an hour: 0 is replaced by one hour
OrOne(sum) == IF sum = 0 THEN 100 ELSE sum

\* Number.prototype.toFixed(1) in tenths, for a sum of quarter hours (which a
\* double holds exactly, so that a tie is rounded up)
ToFixed1(sum) == (sum + 5) \div 10

\* settings.categories of InitialState
CategoryRegistry ==
    <<[id |-> "academic", label |-> "Academic", type |-> "work"],
      [id |-> "professional", label |-> "Professional", type |-> "work"],
      [id |-> "social", label |-> "Social", type |-> "life"],
      [id |-> "self-care", label |-> "Self Care", type |-> "life"]>>

\* categories.find(c => c.id === name || c.label === name): the index of the
\* category found, 0 for undefined
FindCategory(categories, name) ==
    LET hits == {i \in 1..Len(categories) :
                    categories[i].id = name \/ categories[i].label = name}
    IN  IF hits = {} THEN 0
        ELSE CHOOSE i \in hits : \A j \in hits : i <= j

\* the forEach of calculateBalance: stats[type] += t.duration
RECURSIVE BalanceStats(_, _, _)
BalanceStats(ts, categories, stats) ==
    IF ts = <<>> THEN stats
    ELSE LET k == FindCategory(categories, Head(ts).category)
             type == IF k = 0 \/ categories[k].type = "" THEN "work"
                     ELSE categories[k].type
             next == IF k = 0 THEN stats
                     ELSE [stats EXCEPT ![type] = @ + Head(ts).duration.v]
         IN  BalanceStats(Tail(ts), categories, next)

\* the result of calculateBalance, and what renderStats shows: the two
\* percentages and the two sums as toFixed(1) prints them
NoBalance ==
    [set |-> FALSE, workPerc |-> Percent(0, 100), lifePerc |-> Percent(0, 100),
     workHrs |-> 0, lifeHrs |-> 0]

\* Helpers.calculateBalance
calculateBalance(ts, categories) ==
    LET stats == BalanceStats(ts, categories, [work |-> 0, life |-> 0])
        total == OrOne(stats.work + stats.life)
    IN  [set |-> TRUE,
         workPerc |-> Percent(stats.work, total),
         lifePerc |-> Percent(stats.life, total),
         workHrs |-> ToFixed1(stats.work),
         lifeHrs |-> ToFixed1(stats.life)]

\* tasks.filter(t => t.category === a || t.category === b)
\*      .reduce((acc, t) => acc + t.duration, 0)
RECURSIVE HoursOf(_, _)
HoursOf(ts, ids) ==
    IF ts = <<>> THEN 0
    ELSE (IF Head(ts).category \in ids THEN Head(ts).duration.v ELSE 0)
            + HoursOf(Tail(ts), ids)

\* UI.renderStats: the figures it puts into the view
renderStats(ts) ==
    LET workHrs == HoursOf(ts, {"academic", "professional"})
        lifeHrs == HoursOf(ts, {"social", "self-care"})
        totalHrs == OrOne(workHrs + lifeHrs)
    IN  [set |-> TRUE,
         workPerc |-> Percent(workHrs, totalHrs),
         lifePerc |-> Percent(lifeHrs, totalHrs),
         workHrs |-> ToFixed1(workHrs),
         lifeHrs |-> ToFixed1(lifeHrs)]

\* op: the function called; text, ret: the argument and result of importJSON;
\* pattern, regex: the argument and result of compileRegex; records, result:
\* the argument and result of filterTasks; startIndex: regex.lastIndex when
\* filterTasks was called; data, errors: the argument and result of
\* validateTask; balance, stats: the results of calculateBalance and of
\* renderStats for records
LibIdle ==
    [op |-> "", text |-> "", ret |-> NoRet, pattern |-> <<>>,
     regex |-> NullRegex, records |-> <<>>, result |-> <<>>, startIndex |-> 0,
     data |-> StoredTask, errors |-> validateTask(StoredTask),
     balance |-> NoBalance, stats |-> NoBalance]

\* the module body of main.js: State = {...InitialState, ...(Storage.load() || {})}
InitRegistry ==
    /\ store \in InitialStores
    /\ LET ld == StorageLoad(store)
       IN  /\ pc = IF ld.threw THEN "crashed" ELSE "boot"
           /\ tasks = IF ld.threw \/ ld.isNull THEN <<>> ELSE ld.tasks
           /\ capacity = IF ld.threw \/ ld.isNull THEN InitialCapacity
                         ELSE ld.capacity
           /\ lastOp = [Op("load") EXCEPT
                           !.raised = ld.threw,
                           !.loaded = IF ld.threw THEN ""
                                      ELSE IF ld.isNull THEN "null"
                                      ELSE "snapshot"]
    /\ stray = FALSE
    /\ now = 1
    /\ form = FormClosed
    /\ failures = 0
    /\ ops = 0
    /\ initState = "none"

Init == InitRegistry /\ lib = LibIdle

\* App.init up to its await: restores the durable copy or starts the seed fetch
AppInit ==
    /\ pc = "boot"
    /\ LET storedData == StorageLoad(store)
       IN  IF storedData.threw
           THEN /\ pc' = "crashed"
                /\ lastOp' = [Op("init") EXCEPT !.raised = TRUE]
                /\ UNCHANGED <<tasks, stray, capacity, initState>>
           ELSE IF ~storedData.isNull /\ Len(storedData.tasks) > 0
           THEN /\ tasks' = storedData.tasks
                /\ stray' = FALSE
                /\ capacity' = storedData.capacity
                /\ pc' = "ready"
                /\ initState' = "restored"
                /\ lastOp' = [Op("init") EXCEPT !.rendered = TRUE,
                                                !.loaded = "snapshot"]
           ELSE /\ pc' = "fetching"
                /\ lastOp' = [Op("init") EXCEPT
                                 !.loaded = IF storedData.isNull THEN "null"
                                            ELSE "snapshot"]
                /\ UNCHANGED <<tasks, stray, capacity, initState>>
    /\ UNCHANGED <<store, now, form, failures, ops, lib>>

\* loadSeedData after a successful fetch, then the render of init; a throw of
\* the save would land in loadSeedData's own catch, which renders too
SeedLoaded(seed, writeOk) ==
    /\ pc = "fetching"
    /\ MayWrite(writeOk)
    /\ failures' = Count(writeOk)
    /\ LET newTasks == IF seed.hasTasks THEN seed.tasks ELSE <<>>
           newCap == IF Truthy(seed.dailyCapacity) THEN seed.dailyCapacity
                     ELSE Num(800)
           sv == StorageSave(store, newTasks, newCap, writeOk)
       IN  /\ tasks' = newTasks
           /\ stray' = FALSE
           /\ capacity' = newCap
           /\ store' = sv.store
           /\ lastOp' = [Op("seed") EXCEPT !.saved = Saved(writeOk),
                                           !.rendered = TRUE]
    /\ pc' = "ready"
    /\ initState' = "seeded"
    /\ UNCHANGED <<now, form, ops, lib>>

\* loadSeedData when the fetch fails, the response is not ok or does not parse
SeedFailed ==
    /\ pc = "fetching"
    /\ pc' = "ready"
    /\ initState' = "empty"
    /\ lastOp' = [Op("seedFailed") EXCEPT !.rendered = TRUE]
    /\ UNCHANGED <<tasks, stray, capacity, store, now, form, failures, ops, lib>>

\* openForm: the add button (taskId = NoId) is bound by bindEvents before the
\* fetch; editTask is reached from rendered rows
OpenForm(taskId) ==
    /\ \/ pc = "ready"
       \/ pc = "fetching" /\ taskId = NoId
    /\ form' = [open |-> TRUE,
                taskId |-> IF FindIndex(tasks, taskId) > 0 THEN taskId ELSE NoId]
    /\ lastOp' = Op("form")
    /\ UNCHANGED <<pc, tasks, stray, capacity, store, now, failures, ops,
                   initState, lib>>

CloseForm ==
    /\ pc \in {"fetching", "ready"}
    /\ form.open
    /\ form' = FormClosed
    /\ lastOp' = Op("form")
    /\ UNCHANGED <<pc, tasks, stray, capacity, store, now, failures, ops,
                   initState, lib>>

\* handleSave, submitted at clock value t: the handler's clock readings
\* (generateId and the two timestamps) fall into one tick.  A rejected
\* submission stores no timestamp, so the clock reading it made is not kept.
HandleSave(input, t, rnd, writeOk) ==
    /\ pc \in {"fetching", "ready"}
    /\ form.open
    /\ LET taskId == form.taskId
           data == [id |-> IF taskId # NoId THEN taskId ELSE GenerateId(t, rnd),
                    title |-> input.title,
                    date |-> input.date,
                    category |-> input.category,
                    time |-> IF input.time = "" THEN "09:00" ELSE input.time,
                    duration |-> ParseFloat(input.duration),
                    status |-> input.status,
                    urgent |-> input.urgent,
                    cancelReason |-> input.cancelReason,
                    notes |-> input.notes,
                    updatedAt |-> t,
                    createdAt |-> Undef]
           errors == validateTask(data)
           idx == FindIndex(tasks, taskId)
           newTasks == IF taskId = NoId THEN CreateRecord(tasks, data, t)
                       ELSE IF idx > 0
                       THEN [tasks EXCEPT ![idx] = MergeRecord(tasks[idx], data)]
                       ELSE tasks
           sv == StorageSave(store, newTasks, capacity, writeOk)
       IN  IF Rejects(errors)
           THEN /\ lastOp' = [Op("save") EXCEPT
                                 !.invalid = TRUE,
                                 !.alert = FirstError(errors),
                                 !.id = taskId]
                /\ UNCHANGED <<tasks, stray, store, form, failures, ops, now>>
           ELSE /\ taskId = NoId => Len(tasks) < MaxTasks
                /\ ops < MaxOps
                /\ ops' = ops + 1
                /\ MayWrite(writeOk)
                /\ failures' = Count(writeOk)
                /\ now' = t
                /\ tasks' = newTasks
                /\ stray' = (stray \/ (taskId # NoId /\ idx = 0))
                /\ store' = sv.store
                /\ form' = IF sv.threw THEN form ELSE FormClosed
                /\ lastOp' = [Op("save") EXCEPT
                                 !.invalid = HasErrors(errors),
                                 !.saved = Saved(writeOk),
                                 !.raised = sv.threw,
                                 !.rendered = ~sv.threw,
                                 !.id = taskId,
                                 !.idx = idx]
    /\ UNCHANGED <<pc, capacity, initState, lib>>

\* window.deleteTask; a declined confirmation makes no write (writeOk is then
\* held at TRUE, as there is no write to fail)
DeleteTask(id, confirmed, writeOk) ==
    /\ pc = "ready"
    /\ IF confirmed
       THEN LET newTasks == RemoveById(tasks, id)
                sv == StorageSave(store, newTasks, capacity, writeOk)
            IN  /\ ops < MaxOps
                /\ ops' = ops + 1
                /\ MayWrite(writeOk)
                /\ failures' = Count(writeOk)
                /\ tasks' = newTasks
                /\ stray' = FALSE
                /\ store' = sv.store
                /\ lastOp' = [Op("delete") EXCEPT
                                 !.saved = Saved(writeOk),
                                 !.raised = sv.threw,
                                 !.rendered = ~sv.threw,
                                 !.id = id,
                                 !.idx = FindIndex(tasks, id)]
       ELSE /\ writeOk
            /\ lastOp' = [Op("deleteDeclined") EXCEPT !.id = id]
            /\ UNCHANGED <<tasks, stray, store, failures, ops>>
    /\ UNCHANGED <<pc, capacity, now, form, initState, lib>>

\* window.updateCapacity
UpdateCapacity(val, writeOk) ==
    /\ pc \in {"fetching", "ready"}
    /\ ops < MaxOps
    /\ ops' = ops + 1
    /\ MayWrite(writeOk)
    /\ failures' = Count(writeOk)
    /\ LET newCap == ParseFloat(val)
           sv == StorageSave(store, tasks, newCap, writeOk)
       IN  /\ capacity' = newCap
           /\ store' = sv.store
           /\ lastOp' = [Op("capacity") EXCEPT
                            !.saved = Saved(writeOk),
                            !.raised = sv.threw,
                            !.rendered = ~sv.threw]
    /\ UNCHANGED <<pc, tasks, stray, now, form, initState, lib>>

TaskIds == {tasks[i].id : i \in 1..Len(tasks)}

Next ==
    \/ AppInit
    \/ \E seed \in Seeds : \E writeOk \in BOOLEAN : SeedLoaded(seed, writeOk)
    \/ SeedFailed
    \/ \E taskId \in TaskIds \cup {NoId, StaleId} : OpenForm(taskId)
    \/ CloseForm
    \/ \E input \in FormInputs : \E t \in now..MaxClock :
           \E rnd \in 0..(MaxRnd - 1) : \E writeOk \in BOOLEAN :
               HandleSave(input, t, rnd, writeOk)
    \/ \E id \in TaskIds \cup {StaleId} : \E confirmed \in BOOLEAN :
           \E writeOk \in BOOLEAN : DeleteTask(id, confirmed, writeOk)
    \/ \E val \in CapacityInputs : \E writeOk \in BOOLEAN :
           UpdateCapacity(val, writeOk)

Spec == Init /\ [][Next]_vars

\* ------------------------------------------------ the library functions
registry == <<pc, tasks, stray, capacity, store, now, form, failures, ops,
              lastOp, initState>>

\* Storage.importJSON applied to a text
ImportJSON(text) ==
    /\ lib' = [LibIdle EXCEPT !.op = "import", !.text = text,
                              !.ret = importJSON(text)]
    /\ UNCHANGED registry

\* SearchEngine.compileRegex applied to a pattern
CompileRegex(pattern, caseInsensitive) ==
    /\ lib' = [LibIdle EXCEPT !.op = "compile", !.pattern = pattern,
                              !.regex = compileRegex(pattern, caseInsensitive)]
    /\ UNCHANGED registry

\* SearchEngine.filterTasks applied to the regex compiled last (null at first)
FilterTasks(records) ==
    /\ lib.op \in {"compile", "filter"}
    /\ ~lib.regex.threw
    /\ LET r == filterTasks(records, lib.regex)
       IN  lib' = [lib EXCEPT !.op = "filter", !.records = records,
                              !.result = r.result,
                              !.startIndex = lib.regex.lastIndex,
                              !.regex = [@ EXCEPT !.lastIndex = r.lastIndex]]
    /\ UNCHANGED registry

RECURSIVE SeqsUpTo(_, _)
SeqsUpTo(S, n) ==
    IF n = 0 THEN {<<>>}
    ELSE LET shorter == SeqsUpTo(S, n - 1)
         IN  shorter \cup {Append(q, c) : q \in shorter, c \in S}

Patterns == SeqsUpTo(PatternChars, MaxPatternLen)

SearchTask(title, category, notes, cancelReason) ==
    [StoredTask EXCEPT !.title = title, !.category = category,
                       !.notes = notes, !.cancelReason = cancelReason]

SearchRecords ==
    {<<>>,
     <<StoredTask, SeedTask>>,
     <<SearchTask(<<"b">>, "", <<>>, <<>>), StoredTask,
       SearchTask(<<"b">>, "", <<"A">>, <<>>)>>,
     <<SearchTask(<<"b">>, "", <<>>, <<"[", "a", "]">>),
       SearchTask(<<"b", "]">>, "", <<>>, <<>>)>>}

LibNext ==
    \/ \E text \in ImportTexts : ImportJSON(text)
    \/ \E pattern \in Patterns : \E caseInsensitive \in BOOLEAN :
           CompileRegex(pattern, caseInsensitive)
    \/ \E records \in SearchRecords : FilterTasks(records)

SpecLib == Init /\ [][LibNext]_vars

\* ------------------------------------------------- validateTask as a function
MaxDuration == 1000  \* largest duration submitted, in hundredths of an hour
MaxTitleLen == 4     \* characters in a submitted title
MaxReasonLen == 6    \* characters in a submitted cancelReason

\* the data object that handleSave builds and hands to validateTask
Candidate(title, date, duration, status, cancelReason, category) ==
    [StoredTask EXCEPT !.title = title, !.date = date, !.duration = duration,
                       !.status = status, !.cancelReason = cancelReason,
                       !.category = category]

\* what parseFloat can return for the duration field
Durations == {Num(v) : v \in (0 - 100)..MaxDuration} \cup {NaN}

Titles == SeqsUpTo({"a", "A", " "}, MaxTitleLen)

Reasons == SeqsUpTo({"a", " "}, MaxReasonLen)

\* the options of the status control
Statuses == {"planned", "completed", "canceled"}

\* values of the category control: an option of the list that render builds
\* from settings.categories, or "" when the control has no option selected
\* (before the first render, or after openForm assigned a value that is not
\* an option); "Social" is the label of a category, not its id
CategoryInputs ==
    {Categories[i] : i \in 1..Len(Categories)} \cup {"", "Social"}

Candidates ==
    {Candidate(Str_a, Str_date, d, "planned", <<>>, "academic") :
        d \in Durations}
    \cup {Candidate(t, dt, d, "planned", <<>>, "academic") :
            t \in Titles, dt \in {Str_date, Str_baddate},
            d \in {Num(150), Num(10)}}
    \cup {Candidate(t, Str_date, Num(150), "canceled", <<>>, "academic") :
            t \in Titles}
    \cup {Candidate(Str_a, Str_date, Num(150), st, r, "academic") :
            st \in Statuses, r \in Reasons}
    \cup {Candidate(Str_a, Str_date, Num(150), "planned", <<>>, c) :
            c \in CategoryInputs}

\* a candidate is at hand
InitValidate ==
    /\ InitRegistry
    /\ lib \in {[LibIdle EXCEPT !.op = "candidate", !.data = d] :
                   d \in Candidates}

\* Validators.validateTask applied to the candidate
ValidateTask ==
    /\ lib.op = "candidate"
    /\ lib' = [lib EXCEPT !.op = "validate", !.errors = validateTask(lib.data)]
    /\ UNCHANGED registry

SpecValidate == InitValidate /\ [][ValidateTask]_vars

\* ------------------------------------------------- the balance aggregate
MaxBalanceTasks == 2   \* records in the collection that is aggregated

\* durations of stored records, in hundredths of an hour
BalanceDurations == {0, 25, 50, 150}

BalanceTasks ==
    {[StoredTask EXCEPT !.category = c, !.duration = Num(d)] :
        c \in CategoryInputs, d \in BalanceDurations}

\* a collection of records is at hand
InitBalance ==
    /\ InitRegistry
    /\ lib \in {[LibIdle EXCEPT !.op = "records", !.records = ts] :
                   ts \in SeqsUpTo(BalanceTasks, MaxBalanceTasks)}

\* Helpers.calculateBalance(records, settings.categories)
CalculateBalance ==
    /\ lib.op \in {"records", "stats"}
    /\ ~lib.balance.set
    /\ lib' = [lib EXCEPT
                  !.op = "balance",
                  !.balance = calculateBalance(lib.records, CategoryRegistry)]
    /\ UNCHANGED registry

\* UI.renderStats(container, {tasks: records})
RenderStats ==
    /\ lib.op \in {"records", "balance"}
    /\ ~lib.stats.set
    /\ lib' = [lib EXCEPT !.op = "stats", !.stats = renderStats(lib.records)]
    /\ UNCHANGED registry

BalanceNext == CalculateBalance \/ RenderStats

SpecBalance == InitBalance /\ [][BalanceNext]_vars

\* ------------------------------------------------------------ properties
\* the records of ts whose id is not id, in their order, without using filter
KeptIndex(ts, id, j) ==
    CHOOSE i \in 1..Len(ts) :
        /\ ts[i].id # id
        /\ Cardinality({k \in 1..i : ts[k].id # id}) = j

Persisted == store = Serialize(tasks, capacity)

\* C1: a submission (create or update) for which validateTask reports an error
\* leaves the live collection, the settings and the durable copy exactly as
\* they were, and makes no call of save.
C1_ValidateBeforeMutate ==
    [][(lastOp'.op = "save" /\ lastOp'.invalid) =>
          /\ tasks' = tasks
          /\ stray' = stray
          /\ capacity' = capacity
          /\ store' = store
          /\ lastOp'.saved = "none"]_vars

\* an update to status canceled without a reason was rejected
C1_Witness ==
    /\ lastOp.op = "save"
    /\ lastOp.invalid
    /\ lastOp.id # NoId
    /\ lastOp.alert = "A justification is required for registry deviations."
    /\ Len(tasks) >= 1

\* C2: a valid create appends exactly one record at the end, leaves the earlier
\* records as they were, gives the record a generated id and both timestamps,
\* and calls save before it returns (the durable copy is the new snapshot when
\* the write succeeds).
C2_CreateAppends ==
    [][(lastOp'.op = "save" /\ ~lastOp'.invalid /\ lastOp'.id = NoId) =>
          /\ Len(tasks') = Len(tasks) + 1
          /\ SubSeq(tasks', 1, Len(tasks)) = tasks
          /\ LET r == tasks'[Len(tasks')]
             IN  /\ \E rnd \in 0..(MaxRnd - 1) : r.id = GenerateId(now', rnd)
                 /\ r.createdAt = now'
                 /\ r.updatedAt = now'
          /\ lastOp'.saved # "none"
          /\ lastOp'.saved = "ok" => Persisted']_vars

\* a record was created behind an earlier one
C2_Witness ==
    /\ lastOp.op = "save"
    /\ ~lastOp.invalid
    /\ lastOp.id = NoId
    /\ Len(tasks) = 2
    /\ tasks[1] # tasks[2]

\* C3: a valid update of an id that is in the collection replaces that record
\* at its position, keeps its id and createdAt, stamps updatedAt with the time
\* of the update, and leaves the length and every other record unchanged.
C3_UpdateInPlace ==
    [][(lastOp'.op = "save" /\ ~lastOp'.invalid /\ lastOp'.id # NoId
            /\ lastOp'.idx > 0) =>
          LET i == lastOp'.idx
          IN  /\ Len(tasks') = Len(tasks)
              /\ tasks[i].id = lastOp'.id
              /\ \A j \in 1..Len(tasks) : j # i => tasks'[j] = tasks[j]
              /\ tasks'[i].id = tasks[i].id
              /\ tasks'[i].createdAt = tasks[i].createdAt
              /\ tasks'[i].updatedAt = now']_vars

\* a record created earlier was updated later, next to another record
C3_Witness ==
    /\ lastOp.op = "save"
    /\ ~lastOp.invalid
    /\ lastOp.idx > 0
    /\ Len(tasks) >= 2
    /\ tasks[lastOp.idx].createdAt # Undef
    /\ tasks[lastOp.idx].updatedAt > tasks[lastOp.idx].createdAt

\* C4: a valid update whose id is not in the collection reports a failure
\* (no success: the form stays open, nothing is saved) and leaves the
\* collection and the durable copy unchanged.
C4_UpdateNotFound ==
    [][(lastOp'.op = "save" /\ ~lastOp'.invalid /\ lastOp'.id # NoId
            /\ lastOp'.idx = 0) =>
          /\ lastOp'.alert # ""
          /\ lastOp'.saved = "none"
          /\ form'.open
          /\ tasks' = tasks
          /\ stray' = stray
          /\ store' = store]_vars

\* C5: a confirmed delete(id) keeps exactly the records with another id, in
\* their order; with an id that no record has, or when the user declines, the
\* collection is unchanged and nothing is raised; a confirmed delete calls
\* save (the durable copy is the new snapshot when the write succeeds).
C5_DeleteById ==
    [][/\ lastOp'.op = "delete" =>
             /\ \A j \in 1..Len(tasks') : tasks'[j].id # lastOp'.id
             /\ Len(tasks') =
                    Cardinality({k \in 1..Len(tasks) : tasks[k].id # lastOp'.id})
             /\ \A j \in 1..Len(tasks') :
                    tasks'[j] = tasks[KeptIndex(tasks, lastOp'.id, j)]
             /\ lastOp'.idx = 0 => tasks' = tasks
             /\ ~lastOp'.raised
             /\ lastOp'.saved # "none"
             /\ lastOp'.saved = "ok" => Persisted'
       /\ lastOp'.op = "deleteDeclined" =>
             /\ tasks' = tasks
             /\ store' = store
             /\ ~lastOp'.raised]_vars

\* a delete removed a record and kept another
C5_Witness ==
    /\ lastOp.op = "delete"
    /\ lastOp.idx > 0
    /\ Len(tasks) >= 1

\* C6: init ends restored (the durable copy has tasks: the live state is that
\* copy), seeded (the fetch succeeded: tasks and capacity are the seed's and
\* are saved) or empty (the fetch failed: the collection is empty and the
\* render was reached).
C6_ThreeInitialStates ==
    /\ pc = "ready" => initState \in {"restored", "seeded", "empty"}
    /\ lastOp.op = "init" /\ pc = "ready" =>
          /\ initState = "restored"
          /\ store.kind = "json"
          /\ Len(store.tasks) > 0
          /\ tasks = store.tasks
          /\ capacity = store.capacity
    /\ lastOp.op = "seed" =>
          /\ initState = "seeded"
          /\ \E seed \in Seeds :
                /\ tasks = seed.tasks
                /\ capacity = IF Truthy(seed.dailyCapacity)
                              THEN seed.dailyCapacity ELSE Num(800)
          /\ lastOp.saved # "none"
          /\ lastOp.saved = "ok" => Persisted
          /\ lastOp.rendered
    /\ lastOp.op = "seedFailed" =>
          /\ initState = "empty"
          /\ tasks = <<>>
          /\ lastOp.rendered

\* C7: right after a create, update, delete or setCapacity whose write to the
\* store succeeded, the durable copy holds the live tasks and settings.
C7_PersistAfterMutation ==
    (lastOp.op \in {"save", "delete", "capacity"} /\ lastOp.saved = "ok") =>
        /\ store.kind = "json"
        /\ store.tasks = tasks
        /\ store.capacity = capacity

C9_StoreFailuresContained ==
    /\ [][lastOp'.saved = "fail" =>
             /\ store' = store
             /\ ~lastOp'.raised
             /\ lastOp'.rendered
             /\ (lastOp'.op = "save" /\ lastOp'.id = NoId) =>
                    Len(tasks') = Len(tasks) + 1
             /\ (lastOp'.op = "save" /\ lastOp'.idx > 0) =>
                    tasks'[lastOp'.idx].updatedAt = now'
             /\ (lastOp'.op = "delete" /\ lastOp'.idx > 0) =>
                    Len(tasks') < Len(tasks)]_vars
    /\ []((lastOp.op \in {"load", "init"} /\ store.kind # "json") =>
             /\ lastOp.loaded = "null"
             /\ ~lastOp.raised
             /\ pc # "crashed")

\* a create whose write failed: the live collection is ahead of the store
C9_Witness ==
    /\ lastOp.op = "save"
    /\ lastOp.saved = "fail"
    /\ lastOp.id = NoId
    /\ store.kind = "corrupt"
    /\ Len(tasks) = 1

\* C10: compileRegex raises nothing; it returns null for the empty pattern and
\* for a pattern the RegExp constructor rejects; filterTasks with a null regex
\* returns its input as it is.
C10_NullMeansNoFilter ==
    /\ lib.op \in {"compile", "filter"} => ~lib.regex.threw
    /\ (lib.op = "compile"
            /\ (lib.pattern = <<>> \/ ~RegExpItems(lib.pattern).ok)) =>
          lib.regex.isNull
    /\ (lib.op = "filter" /\ lib.regex.isNull) => lib.result = lib.records

\* the unbalanced pattern "[" compiled to null and the filter kept every record
C10_Witness ==
    /\ lib.op = "filter"
    /\ lib.pattern = <<"[">>
    /\ lib.regex.isNull
    /\ Len(lib.records) >= 2
    /\ lib.result = lib.records

\* whether the pattern of regex matches content at some offset
MatchesAnywhere(regex, content) ==
    \E i \in 0..Len(content) : MatchesAt(regex, content, i)

Blank(s) == \A i \in 1..Len(s) : s[i] \in WS

Padded(s) == s # <<>> /\ (s[1] \in WS \/ s[Len(s)] \in WS)

\* the message of the first title rule that s fails, "" when it fails none
FirstTitleRule(s) ==
    IF Blank(s) THEN "Activity title is required."
    ELSE IF Padded(s) THEN "Title cannot have leading or trailing spaces."
    ELSE IF DuplicateWords(s)
    THEN "Duplicate words detected. Please refine the title."
    ELSE ""

\* C13 as stated: every title with leading or trailing whitespace gets the
\* padding error and is rejected, and the title error is that of the first
\* failing rule in the order presence, padding, duplicate word.
C13_PaddedTitleReported ==
    lib.op = "validate" =>
        /\ Padded(lib.data.title) =>
              /\ lib.errors.title =
                     "Title cannot have leading or trailing spaces."
              /\ Rejects(lib.errors)
        /\ lib.errors.title = FirstTitleRule(lib.data.title)

\* C13, amended: every title that is not blank and has leading or trailing
\* whitespace gets the padding error; a blank title gets the presence error;
\* both are rejected; the title error is that of the first failing rule in
\* the order presence, padding, duplicate word, whatever the other fields
\* hold.
C13_FirstTitleRule ==
    lib.op = "validate" =>
        /\ (Padded(lib.data.title) /\ ~Blank(lib.data.title)) =>
              lib.errors.title =
                  "Title cannot have leading or trailing spaces."
        /\ Blank(lib.data.title) =>
              lib.errors.title = "Activity title is required."
        /\ (Padded(lib.data.title) \/ Blank(lib.data.title)) =>
              Rejects(lib.errors)
        /\ lib.errors.title = FirstTitleRule(lib.data.title)

\* a padded title that also repeats a word, next to a bad date and a bad
\* duration: the padding error is the one reported for the title
C13_Witness ==
    /\ lib.op = "validate"
    /\ lib.data.title = <<" ", "a", " ", "a">>
    /\ lib.errors.title = "Title cannot have leading or trailing spaces."
    /\ lib.errors.date # ""
    /\ lib.errors.duration # ""

\* C14: while the seed fetch is pending no step changes the tasks, the
\* capacity or the durable copy, and the step that assigns the seed drops no
\* record and no capacity that a mutation had put into the live snapshot.
C14_NoMutationWhileFetching ==
    /\ [][(pc = "fetching" /\ pc' = "fetching") =>
             /\ tasks' = tasks
             /\ capacity' = capacity
             /\ store' = store]_vars
    /\ [][(pc = "fetching" /\ lastOp'.op = "seed" /\ ops > 0) =>
             /\ \A i \in 1..Len(tasks) :
                    \E j \in 1..Len(tasks') : tasks'[j] = tasks[i]
             /\ capacity' = capacity]_vars

\* C15: no two records of the live collection have the same id.
C15_UniqueIds ==
    \A i, j \in 1..Len(tasks) : tasks[i].id = tasks[j].id => i = j

\* C18: the live capacity is a number greater than 0, and so is the capacity
\* of the durable copy once there is one.
C18_CapacityPositive ==
    /\ capacity.t = "num"
    /\ capacity.v > 0
    /\ store.kind = "json" =>
          /\ store.capacity.t = "num"
          /\ store.capacity.v > 0

\* C16: every canceled record of the live collection has a cancelReason of
\* at least 5 characters after trimming; a submission with status canceled
\* is rejected when its trimmed cancelReason has 4 characters or fewer, and
\* accepted when it has 5 or more and the other fields are valid.
C16_CanceledHasReason ==
    /\ [](\A i \in 1..Len(tasks) :
             tasks[i].status = "canceled" =>
                 Len(Trim(tasks[i].cancelReason)) >= 5)
    /\ [][\A input \in FormInputs : \A t \in now..MaxClock :
             \A rnd \in 0..(MaxRnd - 1) : \A writeOk \in BOOLEAN :
                 (HandleSave(input, t, rnd, writeOk)
                     /\ input.status = "canceled") =>
                    IF Len(Trim(input.cancelReason)) < 5
                    THEN lastOp'.invalid
                    ELSE (TitlePattern(input.title)
                             /\ ~DuplicateWords(input.title)
                             /\ DatePattern(input.date)
                             /\ DurationPattern(
                                    NumToString(ParseFloat(input.duration)))) =>
                         ~lastOp'.invalid]_vars

\* C17: a candidate whose category is not the id of a category of
\* settings.categories is rejected, so every accepted candidate names one.
C17_CategoryKnown ==
    (lib.op = "validate"
        /\ \A i \in 1..Len(Categories) : lib.data.category # Categories[i]) =>
        Rejects(lib.errors)

\* hours of the records of ts whose category has the given type
RECURSIVE TypeHours(_, _)
TypeHours(ts, type) ==
    IF ts = <<>> THEN 0
    ELSE LET k == FindCategory(CategoryRegistry, Head(ts).category)
         IN  (IF k > 0 /\ CategoryRegistry[k].type = type
              THEN Head(ts).duration.v ELSE 0)
                + TypeHours(Tail(ts), type)

\* C19: the aggregate leaves the registry as it is; the work and life hours
\* are the sums of duration by the type of the record's category; each
\* percentage is its sum divided by the combined total, the divisor being at
\* least one hour, so both are 0 when no hours are logged; renderStats and
\* calculateBalance give the same figures for the same records.
C19_BalanceAggregate ==
    /\ [][lib'.op \in {"balance", "stats"} => UNCHANGED registry]_vars
    /\ [](lib.balance.set =>
             LET work == TypeHours(lib.records, "work")
                 life == TypeHours(lib.records, "life")
                 divisor == IF work + life < 100 THEN 100 ELSE work + life
             IN  /\ lib.balance.workHrs = ToFixed1(work)
                 /\ lib.balance.lifeHrs = ToFixed1(life)
                 /\ lib.balance.workPerc = Percent(work, divisor)
                 /\ lib.balance.lifePerc = Percent(life, divisor))
    /\ []((lib.balance.set /\ lib.stats.set) => lib.stats = lib.balance)

====
